---- MODULE Spec2Model ----
(***************************************************************************)
(* memsearch markdown chunker (src/src/memsearch/chunker.py).              *)
(*                                                                         *)
(* A text is a sequence of one-character strings.  chunk_markdown is run   *)
(* as a state machine: split into lines, heading discovery, section        *)
(* building, the per-section loop, and the line loop of                    *)
(* _split_large_section.  compute_chunk_id is run by a second              *)
(* specification (SpecId) that records pairs of calls.                     *)
(***************************************************************************)
EXTENDS Integers, Sequences, FiniteSets, TLC

VARIABLES
    text,              \* chunk_markdown argument: the document
    source,            \* chunk_markdown argument: the source label
    max_chunk_size,    \* chunk_markdown keyword argument
    overlap_lines,     \* chunk_markdown keyword argument
    pc,                \* position in chunk_markdown / _split_large_section
    lines,             \* text.split("\n")
    heading_positions, \* list of (line_idx, level, title)
    sections,          \* list of (start, end, heading, level)
    chunks,            \* chunk_markdown's result list
    sec,               \* position of the loop over sections (1-based)
    i,                 \* _split_large_section: next value of the loop index
    current_lines,     \* _split_large_section: working buffer
    current_start,     \* _split_large_section: 0-based start of the buffer
    sub_chunks,        \* _split_large_section: its local list `chunks`
    call_no,           \* which call of chunk_markdown is running (1 or 2)
    returned,          \* the list the first call returned
    id_calls           \* compute_chunk_id calls made so far (SpecId)

vars == <<text, source, max_chunk_size, overlap_lines, pc, lines,
          heading_positions, sections, chunks, sec, i, current_lines,
          current_start, sub_chunks, call_no, returned, id_calls>>

-----------------------------------------------------------------------------
(* Bounds of the model *)

\* longest text of the exhaustive character-level input set
MaxLen == 4
\* most lines of a document built from DocLineShapes
MaxDocLines == 4
\* largest small max_chunk_size tried (besides the default)
MaxChunkSize == 2
\* largest overlap_lines tried (besides the default)
MaxOverlap == 1

-----------------------------------------------------------------------------
(* Characters and strings *)

NL == "\n"
Alphabet == {"#", " ", "a", NL}

\* str.strip() and the regex class \s, restricted to the model's alphabet
IsSpace(c) == c \in {" ", NL, "\t", "\r"}

Max(a, b) == IF a >= b THEN a ELSE b
Min(a, b) == IF a <= b THEN a ELSE b

\* s[a:b] of Python for 0 <= a, with b clipped to len(s)
Slice(s, a, b) == IF a >= Min(b, Len(s)) THEN <<>> ELSE SubSeq(s, a + 1, Min(b, Len(s)))

RECURSIVE SplitFrom(_, _, _)
SplitFrom(t, k, cur) ==
    IF k > Len(t) THEN <<cur>>
    ELSE IF t[k] = NL THEN <<cur>> \o SplitFrom(t, k + 1, <<>>)
    ELSE SplitFrom(t, k + 1, Append(cur, t[k]))

\* text.split("\n"): always at least one line
Split(t) == SplitFrom(t, 1, <<>>)

RECURSIVE Join(_)
\* "\n".join(ls)
Join(ls) ==
    IF Len(ls) = 0 THEN <<>>
    ELSE IF Len(ls) = 1 THEN ls[1]
    ELSE ls[1] \o <<NL>> \o Join(Tail(ls))

\* str.strip()
Strip(s) ==
    LET keep == {k \in 1..Len(s) : ~IsSpace(s[k])}
    IN  IF keep = {} THEN <<>>
        ELSE SubSeq(s, CHOOSE k \in keep : \A j \in keep : k <= j,
                       CHOOSE k \in keep : \A j \in keep : k >= j)

-----------------------------------------------------------------------------
(* _HEADING_RE = ^(#{1,6})\s+(.+)$ matched at the start of one line *)

MaxHashes == 6

\* the lengths group 1 can take: 1 to 6 leading '#'
HashCounts(line) ==
    {k \in 1..MaxHashes : k <= Len(line) /\ \A j \in 1..k : line[j] = "#"}

\* the lengths \s+ can take after k hashes so that (.+)$ still matches:
\* at least one character is left and none of them is a newline
SpaceCounts(line, k) ==
    {w \in 1..(Len(line) - k) :
        /\ \A j \in (k + 1)..(k + w) : IsSpace(line[j])
        /\ k + w < Len(line)
        /\ \A j \in (k + w + 1)..Len(line) : line[j] # NL}

\* _HEADING_RE.match(line): both quantifiers are greedy, so the match found
\* is the one with the most hashes and, for it, the most whitespace.
\* level is len(m.group(1)), title is m.group(2)
HeadingMatch(line) ==
    LET ks == {k \in HashCounts(line) : SpaceCounts(line, k) # {}}
    IN  IF ks = {} THEN [matched |-> FALSE, level |-> 0, title |-> <<>>]
        ELSE LET k == CHOOSE x \in ks : \A y \in ks : x >= y
                 ws == SpaceCounts(line, k)
                 w == CHOOSE x \in ws : \A y \in ws : x >= y
             IN  [matched |-> TRUE, level |-> k,
                  title |-> SubSeq(line, k + w + 1, Len(line))]

RECURSIVE HeadingsFrom(_, _)
HeadingsFrom(ls, k) ==
    IF k > Len(ls) THEN <<>>
    ELSE LET m == HeadingMatch(ls[k])
         IN  (IF m.matched
              THEN <<[line_idx |-> k - 1, level |-> m.level, title |-> Strip(m.title)]>>
              ELSE <<>>) \o HeadingsFrom(ls, k + 1)

\* the loop that fills heading_positions
FindHeadings(ls) == HeadingsFrom(ls, 1)

\* the preamble section, when there is one
PreambleSection(hp, n) ==
    IF Len(hp) = 0 \/ hp[1].line_idx > 0
    THEN <<[start |-> 0, end |-> IF Len(hp) > 0 THEN hp[1].line_idx ELSE n,
            heading |-> <<>>, level |-> 0]>>
    ELSE <<>>

\* faulty variant: every heading's section runs to the end of the document, as if
\* later headings were nested in it
HeadingSections_ToEnd(hp, n) ==
    [idx \in 1..Len(hp) |->
        [start |-> hp[idx].line_idx, end |-> n,
         heading |-> hp[idx].title, level |-> hp[idx].level]]

\* one section for each heading, up to the next heading or the end
HeadingSections(hp, n) ==
    [idx \in 1..Len(hp) |->
        [start |-> hp[idx].line_idx,
         end |-> IF idx + 1 <= Len(hp) THEN hp[idx + 1].line_idx ELSE n,
         heading |-> hp[idx].title,
         level |-> hp[idx].level]]

BuildSectionList(hp, n) == PreambleSection(hp, n) \o HeadingSections(hp, n)

-----------------------------------------------------------------------------
(* Chunk and its content hash *)

\* ord() of the characters the model uses (one UTF-8 byte each)
Code(c) ==
    CASE c = NL -> 10 [] c = " " -> 32 [] c = "#" -> 35 [] c = "." -> 46
      [] c = "0" -> 48 [] c = "1" -> 49 [] c = "2" -> 50 [] c = "3" -> 51
      [] c = "4" -> 52 [] c = "5" -> 53 [] c = "6" -> 54 [] c = "7" -> 55
      [] c = "8" -> 56 [] c = "9" -> 57 [] c = ":" -> 58 [] c = "a" -> 97
      [] c = "b" -> 98 [] c = "d" -> 100 [] c = "k" -> 107 [] c = "m" -> 109
      [] c = "n" -> 110 [] c = "o" -> 111 [] c = "r" -> 114 [] c = "w" -> 119

\* size of the digest space.  sha256(...).hexdigest()[:16] has 16^16 values;
\* the model keeps 4 hex digits so that TLC's integers hold a digest
DigestRange == 65536

HexDigits == <<"0", "1", "2", "3", "4", "5", "6", "7",
               "8", "9", "a", "b", "c", "d", "e", "f">>

RECURSIVE DigestFrom(_, _, _)
DigestFrom(s, k, h) ==
    IF k > Len(s) THEN h
    ELSE DigestFrom(s, k + 1, (h * 31 + Code(s[k])) % DigestRange)

\* hashlib.sha256(s.encode()).hexdigest()[:16]: a fixed-length hex string
\* that is a function of the bytes of s alone.  The digest itself is
\* stood in for by a polynomial hash over the bytes.
Sha256Hex16(s) ==
    LET h == DigestFrom(s, 1, 7)
    IN  <<HexDigits[(h \div 4096) + 1], HexDigits[((h \div 256) % 16) + 1],
          HexDigits[((h \div 16) % 16) + 1], HexDigits[(h % 16) + 1]>>

\* faulty variant: the hash also covers the source label
PostInit_HashWithSource(c) ==
    IF c.content_hash = <<>>
    THEN [c EXCEPT !.content_hash = Sha256Hex16(c.content \o c.source)]
    ELSE c

\* Chunk.__post_init__: fill content_hash when it was left at its default ""
PostInit(c) ==
    IF c.content_hash = <<>>
    THEN [c EXCEPT !.content_hash = Sha256Hex16(c.content)]
    ELSE c

\* Chunk(content=..., source=..., heading=..., heading_level=...,
\*       start_line=..., end_line=...) with content_hash left at its default
Chunk(content, src, heading, level, start, end) ==
    PostInit([content |-> content, source |-> src, heading |-> heading,
              heading_level |-> level, start_line |-> start, end_line |-> end,
              content_hash |-> <<>>])

-----------------------------------------------------------------------------
(* Inputs *)

DefaultMaxChunkSize == 1500
DefaultOverlapLines == 2

RECURSIVE SeqsUpTo(_, _)
\* all sequences over S of length at most n
SeqsUpTo(S, n) ==
    IF n = 0 THEN {<<>>}
    ELSE LET shorter == SeqsUpTo(S, n - 1)
         IN  shorter \cup {Append(q, x) : q \in {r \in shorter : Len(r) = n - 1}, x \in S}

\* every text of at most MaxLen characters
ShortTexts == SeqsUpTo(Alphabet, MaxLen)

\* lines that documents are assembled from: empty, blank, body, two headings
DocLineShapes == {<<>>, <<" ">>, <<"a">>, <<"#", " ", "a">>, <<"#", "#", " ", "a">>}

\* every document of 1 to MaxDocLines such lines, joined with newlines
Docs == {Join(ls) : ls \in SeqsUpTo(DocLineShapes, MaxDocLines) \ {<<>>}}

Texts == ShortTexts \cup Docs

\* max_chunk_size: 0 (not positive), small sizes that force splitting, the default
ChunkSizes == (0..MaxChunkSize) \cup {DefaultMaxChunkSize}
Overlaps == (0..MaxOverlap) \cup {DefaultOverlapLines}

\* the source labels of the first and the second call
FirstSource == <<"a", ".", "m", "d">>
SecondSource == <<"b", ".", "m", "d">>

-----------------------------------------------------------------------------
(* chunk_markdown *)

Init ==
    /\ text \in Texts
    /\ source = FirstSource
    /\ max_chunk_size \in ChunkSizes
    /\ overlap_lines \in Overlaps
    /\ pc = "split_lines"
    /\ lines = <<>>
    /\ heading_positions = <<>>
    /\ sections = <<>>
    /\ chunks = <<>>
    /\ sec = 1
    /\ i = 0
    /\ current_lines = <<>>
    /\ current_start = 0
    /\ sub_chunks = <<>>
    /\ call_no = 1
    /\ returned = <<>>
    /\ id_calls = <<>>

\* lines = text.split("\n")
SplitLines ==
    /\ pc = "split_lines"
    /\ lines' = Split(text)
    /\ pc' = "find_headings"
    /\ UNCHANGED <<text, source, max_chunk_size, overlap_lines, heading_positions,
                   sections, chunks, sec, i, current_lines, current_start,
                   sub_chunks, call_no, returned, id_calls>>

\* for i, line in enumerate(lines): record the lines the regex matches
ScanHeadings ==
    /\ pc = "find_headings"
    /\ heading_positions' = FindHeadings(lines)
    /\ pc' = "build_sections"
    /\ UNCHANGED <<text, source, max_chunk_size, overlap_lines, lines,
                   sections, chunks, sec, i, current_lines, current_start,
                   sub_chunks, call_no, returned, id_calls>>

\* the preamble section, then one section for each heading
BuildSections ==
    /\ pc = "build_sections"
    /\ sections' = BuildSectionList(heading_positions, Len(lines))
    /\ chunks' = <<>>
    /\ sec' = 1
    /\ pc' = "sections"
    /\ UNCHANGED <<text, source, max_chunk_size, overlap_lines, lines,
                   heading_positions, i, current_lines, current_start,
                   sub_chunks, call_no, returned, id_calls>>

\* lines[start:end] of a section
SectionLines(s) == Slice(lines, s.start, s.end)

\* section_text = "\n".join(lines[start:end]).strip()
SectionText(s) == Strip(Join(SectionLines(s)))

\* if not section_text: continue
SkipEmptySection ==
    /\ pc = "sections"
    /\ sec <= Len(sections)
    /\ SectionText(sections[sec]) = <<>>
    /\ sec' = sec + 1
    /\ UNCHANGED <<text, source, max_chunk_size, overlap_lines, pc, lines,
                   heading_positions, sections, chunks, i, current_lines,
                   current_start, sub_chunks, call_no, returned, id_calls>>

\* faulty variant: start_line left 0-based
WholeSectionChunk_ZeroBased(s) ==
    Chunk(SectionText(s), source, s.heading, s.level, s.start, s.end)

\* the chunk of a section that fits
WholeSectionChunk(s) ==
    Chunk(SectionText(s), source, s.heading, s.level, s.start + 1, s.end)

\* if len(section_text) <= max_chunk_size: one chunk for the section
EmitSection ==
    /\ pc = "sections"
    /\ sec <= Len(sections)
    /\ SectionText(sections[sec]) # <<>>
    /\ Len(SectionText(sections[sec])) <= max_chunk_size
    /\ chunks' = Append(chunks, WholeSectionChunk(sections[sec]))
    /\ sec' = sec + 1
    /\ UNCHANGED <<text, source, max_chunk_size, overlap_lines, pc, lines,
                   heading_positions, sections, i, current_lines,
                   current_start, sub_chunks, call_no, returned, id_calls>>

\* else: call _split_large_section(lines[start:end], ..., base_line=start, ...)
EnterSplit ==
    /\ pc = "sections"
    /\ sec <= Len(sections)
    /\ SectionText(sections[sec]) # <<>>
    /\ Len(SectionText(sections[sec])) > max_chunk_size
    /\ pc' = "split"
    /\ i' = 0
    /\ current_lines' = <<>>
    /\ current_start' = 0
    /\ sub_chunks' = <<>>
    /\ UNCHANGED <<text, source, max_chunk_size, overlap_lines, lines,
                   heading_positions, sections, chunks, sec, call_no,
                   returned, id_calls>>

-----------------------------------------------------------------------------
(* _split_large_section, called on sections[sec] *)

\* is_paragraph_break = line.strip() == "" and i + 1 < len(lines)
IsParagraphBreak(line, idx, n) == Strip(line) = <<>> /\ idx + 1 < n

\* is_last_line = i == len(lines) - 1
IsLastLine(idx, n) == idx = n - 1

\* (len(text) >= max_size and is_paragraph_break) or is_last_line
IsSplitPoint(buf, line, idx, n, max_size) ==
    (Len(Join(buf)) >= max_size /\ IsParagraphBreak(line, idx, n)) \/ IsLastLine(idx, n)

\* faulty variant: the flushed buffer is never cut down to its overlap
CarryOver_KeepAll(buf, overlap, is_last) ==
    IF is_last THEN <<>> ELSE buf

\* faulty variant: the first overlap lines are carried instead of the last
CarryOver_KeepFirst(buf, overlap, is_last) ==
    IF is_last THEN <<>> ELSE Slice(buf, 0, overlap)

\* overlap_start = max(0, len(current_lines) - overlap)
\* current_lines = current_lines[overlap_start:] if not is_last_line else []
CarryOver(buf, overlap, is_last) ==
    IF is_last THEN <<>>
    ELSE Slice(buf, Max(0, Len(buf) - overlap), Len(buf))

\* current_start = i + 1 - len(current_lines)
NextStart(idx, carried) == idx + 1 - Len(carried)

\* faulty variant: start_line one line late
SubChunk_StartLate(content, s, cur_start, idx) ==
    Chunk(content, source, s.heading, s.level,
          s.start + cur_start + 2, s.start + idx + 1)

\* the chunk of a flushed buffer
SubChunk(content, s, cur_start, idx) ==
    Chunk(content, source, s.heading, s.level,
          s.start + cur_start + 1, s.start + idx + 1)

\* one iteration of: for i, line in enumerate(lines)
SplitStep ==
    /\ pc = "split"
    /\ i < Len(SectionLines(sections[sec]))
    /\ LET s == sections[sec]
           ls == SectionLines(s)
           line == ls[i + 1]
           buf == Append(current_lines, line)
           content == Strip(Join(buf))
           carried == CarryOver(buf, overlap_lines, IsLastLine(i, Len(ls)))
       IN  IF IsSplitPoint(buf, line, i, Len(ls), max_chunk_size)
           THEN /\ sub_chunks' = IF content # <<>>
                                 THEN Append(sub_chunks, SubChunk(content, s, current_start, i))
                                 ELSE sub_chunks
                /\ current_lines' = carried
                /\ current_start' = NextStart(i, carried)
           ELSE /\ current_lines' = buf
                /\ UNCHANGED <<sub_chunks, current_start>>
    /\ i' = i + 1
    /\ UNCHANGED <<text, source, max_chunk_size, overlap_lines, pc, lines,
                   heading_positions, sections, chunks, sec, call_no,
                   returned, id_calls>>

\* return chunks, and chunks.extend(...) in chunk_markdown
SplitReturn ==
    /\ pc = "split"
    /\ i = Len(SectionLines(sections[sec]))
    /\ chunks' = chunks \o sub_chunks
    /\ sec' = sec + 1
    /\ pc' = "sections"
    /\ UNCHANGED <<text, source, max_chunk_size, overlap_lines, lines,
                   heading_positions, sections, i, current_lines,
                   current_start, sub_chunks, call_no, returned, id_calls>>

\* return chunks
Return ==
    /\ pc = "sections"
    /\ sec > Len(sections)
    /\ pc' = "done"
    /\ UNCHANGED <<text, source, max_chunk_size, overlap_lines, lines,
                   heading_positions, sections, chunks, sec, i, current_lines,
                   current_start, sub_chunks, call_no, returned, id_calls>>

\* the caller chunks the same text again under another source label
CallAgain ==
    /\ pc = "done"
    /\ call_no = 1
    /\ returned' = chunks
    /\ call_no' = 2
    /\ source' = SecondSource
    /\ pc' = "split_lines"
    /\ lines' = <<>>
    /\ heading_positions' = <<>>
    /\ sections' = <<>>
    /\ chunks' = <<>>
    /\ sec' = 1
    /\ i' = 0
    /\ current_lines' = <<>>
    /\ current_start' = 0
    /\ sub_chunks' = <<>>
    /\ UNCHANGED <<text, max_chunk_size, overlap_lines, id_calls>>

Next ==
    \/ SplitLines
    \/ ScanHeadings
    \/ BuildSections
    \/ SkipEmptySection
    \/ EmitSection
    \/ EnterSplit
    \/ SplitStep
    \/ SplitReturn
    \/ Return

\* one call of chunk_markdown on any text of Texts
Spec == Init /\ [][Next]_vars

\* two calls in a row on the same short text, under two source labels
InitTwoCalls == Init /\ text \in ShortTexts

NextTwoCalls ==
    \/ Next
    \/ CallAgain

SpecTwoCalls == InitTwoCalls /\ [][NextTwoCalls]_vars

-----------------------------------------------------------------------------
(* compute_chunk_id *)

RECURSIVE Digits(_)
Digits(n) == IF n < 10 THEN <<HexDigits[n + 1]>> ELSE Append(Digits(n \div 10), HexDigits[(n % 10) + 1])

\* f"{n}" of an int: decimal digits, no padding
IntToStr(n) == Digits(n)

\* faulty variant: the model tag is left out of the hashed string
ChunkIdRaw_NoModel(src, start, end, hash, model) ==
    <<"m", "a", "r", "k", "d", "o", "w", "n", ":">> \o src \o <<":">> \o IntToStr(start)
        \o <<":">> \o IntToStr(end) \o <<":">> \o hash

\* raw = f"markdown:{source}:{start_line}:{end_line}:{content_hash}:{model}"
ChunkIdRaw(src, start, end, hash, model) ==
    <<"m", "a", "r", "k", "d", "o", "w", "n", ":">> \o src \o <<":">> \o IntToStr(start)
        \o <<":">> \o IntToStr(end) \o <<":">> \o hash \o <<":">> \o model

\* hashlib.sha256(raw.encode()).hexdigest()[:16]
ComputeChunkId(src, start, end, hash, model) ==
    Sha256Hex16(ChunkIdRaw(src, start, end, hash, model))

\* values of the string arguments: empty, plain, and the delimiter itself
IdStrings == {<<>>, <<"a">>, <<":">>}
\* values of the line-number arguments: one and two decimal digits
IdLineNumbers == {1, 2, 12}

InitId ==
    /\ text = <<>>
    /\ source = <<>>
    /\ max_chunk_size = DefaultMaxChunkSize
    /\ overlap_lines = DefaultOverlapLines
    /\ pc = "idle"
    /\ lines = <<>>
    /\ heading_positions = <<>>
    /\ sections = <<>>
    /\ chunks = <<>>
    /\ sec = 1
    /\ i = 0
    /\ current_lines = <<>>
    /\ current_start = 0
    /\ sub_chunks = <<>>
    /\ call_no = 0
    /\ returned = <<>>
    /\ id_calls = <<>>

\* one call of compute_chunk_id; the model keeps the first two calls
CallComputeChunkId ==
    /\ pc = "idle"
    /\ Len(id_calls) < 2
    /\ \E src \in IdStrings, start \in IdLineNumbers, end \in IdLineNumbers,
          hash \in IdStrings, model \in IdStrings :
            id_calls' = Append(id_calls,
                [source |-> src, start_line |-> start, end_line |-> end,
                 content_hash |-> hash, model |-> model,
                 raw |-> ChunkIdRaw(src, start, end, hash, model),
                 id |-> ComputeChunkId(src, start, end, hash, model)])
    /\ UNCHANGED <<text, source, max_chunk_size, overlap_lines, pc, lines,
                   heading_positions, sections, chunks, sec, i, current_lines,
                   current_start, sub_chunks, call_no, returned>>

NextId == CallComputeChunkId

SpecId == InitId /\ [][NextId]_vars

-----------------------------------------------------------------------------
(* Properties *)

\* the contract's parameters: max_chunk_size > 0 and overlap_lines >= 0
ValidParams == max_chunk_size > 0 /\ overlap_lines >= 0

\* the call has returned its list
Done == pc = "done"

\* the chunks built so far, in chunk_markdown and in the running split
BuiltChunks ==
    {chunks[k] : k \in 1..Len(chunks)} \cup {sub_chunks[k] : k \in 1..Len(sub_chunks)}

\* number of lines of a text: one more than its newlines
NumLines(t) == 1 + Cardinality({k \in 1..Len(t) : t[k] = NL})

\* a content that is one line: it holds no newline
IsSingleLine(content) == \A k \in 1..Len(content) : content[k] # NL

\* a line with nothing but whitespace
IsBlank(line) == \A k \in 1..Len(line) : IsSpace(line[k])

\* C1: with max_chunk_size > 0 and overlap_lines >= 0, every chunk has
\* len(content) <= max_chunk_size, except a chunk whose content is a single
\* line longer than max_chunk_size.
C1_SizeBound ==
    ValidParams =>
        \A c \in BuiltChunks :
            Len(c.content) <= max_chunk_size \/ IsSingleLine(c.content)

\* C3: for every chunk, heading_level = 0 exactly when heading = "", and the
\* level is at most 6.
C3_LevelZeroIffNoHeading ==
    \A c \in BuiltChunks :
        /\ (c.heading_level = 0) <=> (c.heading = <<>>)
        /\ c.heading_level \in 0..MaxHashes

\* C5: a call with max_chunk_size <= 0 is rejected before the text is
\* scanned: it never splits the text into lines, builds no chunk and never
\* returns normally.
C5_NonPositiveSizeRejected ==
    max_chunk_size <= 0 => (pc = "split_lines" /\ lines = <<>> /\ chunks = <<>>)

\* C9: every chunk has 1 <= start_line <= end_line <= number of lines of the
\* text, whether its section was split or not.
C9_LineRange ==
    ValidParams =>
        \A c \in BuiltChunks :
            /\ 1 <= c.start_line
            /\ c.start_line <= c.end_line
            /\ c.end_line <= NumLines(text)

\* a section whose trimmed text is longer than max_chunk_size
IsOversized(s) == Len(SectionText(s)) > max_chunk_size

\* a chunk lying in section s
ChunkIn(c, s) == s.start < c.start_line /\ c.end_line <= s.end

\* C9 witness: the call returned a chunk of an unsplit section and two
\* sub-chunks of a split one
C9_Witness ==
    /\ Done
    /\ ValidParams
    /\ \E a \in 1..Len(sections), b \in 1..Len(sections) :
        /\ ~IsOversized(sections[a])
        /\ IsOversized(sections[b])
        /\ \E c \in BuiltChunks : ChunkIn(c, sections[a])
        /\ \E c, d \in BuiltChunks : /\ ChunkIn(c, sections[b])
                                     /\ ChunkIn(d, sections[b])
                                     /\ c.end_line < d.end_line

\* the chunks of the returned list whose declared range holds line n (1-based)
Covering(n) == {k \in 1..Len(chunks) : chunks[k].start_line <= n /\ n <= chunks[k].end_line}

\* line n (1-based) lies in a section dropped for having an empty trimmed text
InDroppedSection(n) ==
    \E k \in 1..Len(sections) :
        /\ sections[k].start < n
        /\ n <= sections[k].end
        /\ SectionText(sections[k]) = <<>>

\* the 1-based numbers of the non-blank lines of the text
NonBlankLines == {n \in 1..Len(lines) : ~IsBlank(lines[n])}

\* C2 as stated: every non-blank line lies in the declared range of exactly
\* one returned chunk, or in a dropped section.
C2_CoveredExactlyOnce ==
    (Done /\ ValidParams) =>
        \A n \in NonBlankLines : Cardinality(Covering(n)) = 1 \/ InDroppedSection(n)

\* C2 amended: every non-blank line lies in the declared range of at least
\* one returned chunk, and of exactly one when overlap_lines = 0.
C2_Covered ==
    (Done /\ ValidParams) =>
        \A n \in NonBlankLines :
            \/ InDroppedSection(n)
            \/ /\ Cardinality(Covering(n)) >= 1
               /\ overlap_lines = 0 => Cardinality(Covering(n)) = 1

\* C2 witness: a split section was returned in which a non-blank line is
\* carried forward, so that two chunks declare it
C2_Witness ==
    /\ Done
    /\ ValidParams
    /\ \E n \in NonBlankLines : Cardinality(Covering(n)) = 2

\* chunks k and k+1 of the returned list come from the same section
SameSection(k) ==
    \E n \in 1..Len(sections) :
        ChunkIn(chunks[k], sections[n]) /\ ChunkIn(chunks[k + 1], sections[n])

\* C6 as stated: for consecutive chunks i, i+1 of one section,
\* end_line of chunk i >= start_line of chunk i+1 - overlap_lines.
C6_NoForwardGap ==
    ValidParams =>
        \A k \in 1..(Len(chunks) - 1) :
            SameSection(k) =>
                chunks[k].end_line >= chunks[k + 1].start_line - overlap_lines

\* C6 amended: for consecutive chunks i, i+1 of one section, chunk i+1
\* starts at most overlap_lines lines before the line after chunk i
\* (start_line of i+1 >= end_line of i + 1 - overlap_lines), and every line
\* strictly between end_line of i and start_line of i+1 is blank.
C6_GapsAreBlank ==
    ValidParams =>
        \A k \in 1..(Len(chunks) - 1) :
            SameSection(k) =>
                /\ chunks[k + 1].start_line >= chunks[k].end_line + 1 - overlap_lines
                /\ \A n \in (chunks[k].end_line + 1)..(chunks[k + 1].start_line - 1) :
                        IsBlank(lines[n])

\* C6 witness: two consecutive chunks of one section with a line between
\* their ranges
C6_Witness ==
    /\ Done
    /\ ValidParams
    /\ \E k \in 1..(Len(chunks) - 1) :
        /\ SameSection(k)
        /\ chunks[k + 1].start_line > chunks[k].end_line + 1

\* number of '#' characters a line begins with
LeadingHashes(line) ==
    Cardinality({k \in 1..Len(line) : \A j \in 1..k : line[j] = "#"})

\* a heading line: 1 to 6 '#', then whitespace, then at least one more character
IsHeadingLine(line) ==
    /\ LeadingHashes(line) \in 1..MaxHashes
    /\ Len(line) >= LeadingHashes(line) + 2
    /\ IsSpace(line[LeadingHashes(line) + 1])

\* the trimmed title of a heading line: what follows its '#' characters
TitleOf(line) == Strip(SubSeq(line, LeadingHashes(line) + 1, Len(line)))

\* the lines (1-based) that open a section: line 1 and every heading line
SectionStarts == {1} \cup {n \in 1..Len(lines) : IsHeadingLine(lines[n])}

\* the last line of the section that line n opens
SectionEnd(n) ==
    LET later == {m \in SectionStarts : m > n}
    IN  IF later = {} THEN Len(lines)
        ELSE (CHOOSE m \in later : \A x \in later : m <= x) - 1

\* the trimmed text of the section that line n opens
TrimmedSection(n) == Strip(Join(SubSeq(lines, n, SectionEnd(n))))

\* the section starts whose trimmed text is not empty
KeptStarts == {n \in SectionStarts : TrimmedSection(n) # <<>>}

\* every section fits in max_chunk_size
AllSectionsFit == \A n \in SectionStarts : Len(TrimmedSection(n)) <= max_chunk_size

\* C8: when every section's trimmed text has at most max_chunk_size
\* characters, the returned list holds, in document order, exactly one
\* chunk for each section with a non-empty trimmed text; the sections are
\* opened by line 1 and by every heading line; the chunk of a section
\* carries the section's trimmed text, and the trimmed title and the number
\* of '#' of its heading line, or "" and 0 for the text before the first
\* heading.
C8_OneChunkPerSection ==
    (Done /\ ValidParams /\ AllSectionsFit) =>
        /\ Len(chunks) = Cardinality(KeptStarts)
        /\ \A n \in KeptStarts :
            LET c == chunks[Cardinality({m \in KeptStarts : m <= n})]
            IN  /\ c.start_line = n
                /\ c.end_line = SectionEnd(n)
                /\ c.content = TrimmedSection(n)
                /\ c.heading = IF IsHeadingLine(lines[n]) THEN TitleOf(lines[n]) ELSE <<>>
                /\ c.heading_level = IF IsHeadingLine(lines[n]) THEN LeadingHashes(lines[n]) ELSE 0

\* C8 witness: a returned list with a preamble chunk, a chunk of a level-2
\* section and a later chunk of a level-1 section
C8_Witness ==
    /\ Done
    /\ ValidParams
    /\ AllSectionsFit
    /\ \E a, b, c \in 1..Len(chunks) :
        /\ a < b /\ b < c
        /\ chunks[a].heading_level = 0
        /\ chunks[b].heading_level = 2
        /\ chunks[c].heading_level = 1

\* the line the split loop appends next, and the buffer it then holds
NextLine == SectionLines(sections[sec])[i + 1]
NextBuffer == Append(current_lines, NextLine)

\* the split loop is about to run an iteration
AtSplitLine == pc = "split" /\ i < Len(SectionLines(sections[sec]))

\* the iteration appends the section's final line
AtFinalLine == i + 1 = Len(SectionLines(sections[sec]))

\* the iteration flushes: the final line, or a blank line that brings the
\* buffer's joined length to max_chunk_size or more
Flushes == AtFinalLine \/ (IsBlank(NextLine) /\ Len(Join(NextBuffer)) >= max_chunk_size)

\* the last n lines of a buffer, all of them when it has fewer
LastLines(buf, n) == SubSeq(buf, Len(buf) - Min(n, Len(buf)) + 1, Len(buf))

\* C10: an iteration of the split loop that flushes on a line that is not
\* the section's final line leaves as the next buffer exactly the last
\* overlap_lines lines of the flushed buffer (all of them when it has
\* fewer), starting at the flushed buffer's end position + 1 minus the
\* number of lines carried; a flush on the final line leaves an empty
\* buffer; an iteration that does not flush keeps the grown buffer and its
\* start.
C10_OverlapCarry ==
    [][(AtSplitLine /\ ValidParams /\ i' = i + 1) =>
          /\ (Flushes /\ ~AtFinalLine) =>
                /\ current_lines' = LastLines(NextBuffer, overlap_lines)
                /\ current_start' = i + 1 - Min(overlap_lines, Len(NextBuffer))
          /\ (Flushes /\ AtFinalLine) => current_lines' = <<>>
          /\ ~Flushes => (current_lines' = NextBuffer /\ current_start' = current_start)
      ]_vars

\* C10 witness: the split loop has just flushed a buffer of more than
\* overlap_lines lines before the section's final line and carried
\* overlap_lines > 0 of them
C10_Witness ==
    /\ pc = "split"
    /\ ValidParams
    /\ overlap_lines > 0
    /\ i < Len(SectionLines(sections[sec]))
    /\ sub_chunks # <<>>
    /\ sub_chunks[Len(sub_chunks)].end_line = sections[sec].start + i
    /\ sub_chunks[Len(sub_chunks)].end_line - sub_chunks[Len(sub_chunks)].start_line + 1
            > overlap_lines
    /\ Len(current_lines) = overlap_lines
    /\ current_start = i - overlap_lines

\* C7: two chunks with equal content have equal content_hash, whether they
\* come from one call or from two calls with different source labels.
C7_HashOfContentAlone ==
    \A c \in BuiltChunks \cup {returned[k] : k \in 1..Len(returned)} :
        \A d \in BuiltChunks \cup {returned[k] : k \in 1..Len(returned)} :
            c.content = d.content => c.content_hash = d.content_hash

\* C7 witness: the second call has returned a chunk whose content equals
\* that of a chunk of the first call with another source label and another
\* line range
C7_Witness ==
    /\ Done
    /\ ValidParams
    /\ call_no = 2
    /\ \E c \in BuiltChunks, d \in {returned[k] : k \in 1..Len(returned)} :
        /\ c.content = d.content
        /\ c.source # d.source
        /\ c.start_line # d.start_line

\* the argument tuple of a recorded compute_chunk_id call
IdArgs(r) == <<r.source, r.start_line, r.end_line, r.content_hash, r.model>>

\* the number of arguments in which two recorded calls differ
ArgsChanged(r, q) == Cardinality({k \in 1..5 : IdArgs(r)[k] # IdArgs(q)[k]})

\* none of the string arguments of a recorded call holds the delimiter
ColonFree(r) ==
    \A f \in {r.source, r.content_hash, r.model} : \A k \in 1..Len(f) : f[k] # ":"

\* C4 as stated: two calls with the same arguments return the same
\* identifier, and two calls whose argument tuples differ hash different
\* strings, for all string values of source, content_hash and model.
C4_DistinctArgsDistinctRaw ==
    Len(id_calls) = 2 =>
        /\ IdArgs(id_calls[1]) = IdArgs(id_calls[2]) => id_calls[1].id = id_calls[2].id
        /\ IdArgs(id_calls[1]) # IdArgs(id_calls[2]) => id_calls[1].raw # id_calls[2].raw

\* C4 amended: two calls with the same arguments return the same
\* identifier; two calls hash different strings when their argument tuples
\* differ in exactly one argument, or differ in any number of arguments
\* while no string argument of either holds ':'.
C4_ChunkId ==
    Len(id_calls) = 2 =>
        /\ IdArgs(id_calls[1]) = IdArgs(id_calls[2]) => id_calls[1].id = id_calls[2].id
        /\ ArgsChanged(id_calls[1], id_calls[2]) = 1 => id_calls[1].raw # id_calls[2].raw
        /\ (/\ ArgsChanged(id_calls[1], id_calls[2]) >= 1
            /\ ColonFree(id_calls[1])
            /\ ColonFree(id_calls[2])) => id_calls[1].raw # id_calls[2].raw

\* C4 witness: two calls that differ in the model argument alone, one of
\* them with the delimiter as its model, and return different identifiers
C4_Witness ==
    /\ Len(id_calls) = 2
    /\ ArgsChanged(id_calls[1], id_calls[2]) = 1
    /\ id_calls[1].model = <<":">>
    /\ id_calls[2].model = <<"a">>
    /\ id_calls[1].start_line = 12
    /\ id_calls[1].id # id_calls[2].id


====
